---------------------------- MODULE Spec2Model ----------------------------
(***************************************************************************)
(* A model of the transit dashboards of this repository: seven Streamlit  *)
(* scripts, each with its own load_data and its own filter block.          *)
(*                                                                         *)
(* A raw row uses one set of field names for all entry points:             *)
(*   date  ticket_date / running_date     time  ticket_time                *)
(*   fare  px_total_amount / total_amount dist  travelled_KM /             *)
(*   pax   px_count / total_count               travel_distance            *)
(*   tkt   ticket_type_short_code         svc   bus_service_id / color_line*)
(*   route route_no                       sched (schedule_no, route_id)    *)
(* A loaded row also has idx, its index label (the source row's number).   *)
(* A cell is a record [k, n, d]: k = "num" is the rational n/d, "big" is   *)
(* n * 10^9, "nan" a missing value (NaN), "inf" infinity, "bad" a text     *)
(* that is no number and no date, "absent" the cell of a column the source *)
(* file does not have.                                                     *)
(***************************************************************************)
EXTENDS Integers, Sequences, FiniteSets, TLC

VARIABLES
    entry,      \* the script that is run
    raw,        \* the rows of the primary source file
    env,        \* the files and columns that are absent
    phase,      \* "start" | "loaded" | "shown" | "raised" | "stopped"
    df,         \* the table load_data returned
    sel,        \* the widgets' values
    page,       \* the page shown
    out,        \* what the last run of the script produced
    steps,      \* the number of widget changes so far
    agg,        \* the aggregates the page computed from its subset
    ld          \* where the chunked load_data of init.py stands

vars == <<entry, raw, env, phase, df, sel, page, out, steps, agg, ld>>

-----------------------------------------------------------------------------
(* Bounds *)

MaxRows == 2
MaxSteps == 2

-----------------------------------------------------------------------------
(* Cells *)

Num(n) == [k |-> "num", n |-> n, d |-> 1]
NaN == [k |-> "nan", n |-> 0, d |-> 1]
Inf == [k |-> "inf", n |-> 0, d |-> 1]
Bad == [k |-> "bad", n |-> 0, d |-> 1]
NaT == [k |-> "nat", n |-> 0, d |-> 0]
Absent == [k |-> "absent", n |-> 0, d |-> 1]
Ts(day, tod) == [k |-> "ts", n |-> day, d |-> tod]
NoName == "nan"

IsNull(c) == c.k \in {"nan", "nat"}
IsFinite(c) == c.k \in {"num", "big"}

RECURSIVE Gcd(_, _)
Gcd(a, b) == IF b = 0 THEN a ELSE Gcd(b, a % b)

Rat(n, d) == LET g == Gcd(n, d) IN [k |-> "num", n |-> n \div g, d |-> d \div g]

\* Series / Series of two numeric columns: x/0 is inf, 0/0 and NaN/x are NaN.
Div(a, b) ==
    IF a.k = "nan" \/ b.k = "nan" THEN NaN
    ELSE IF b.n = 0 THEN (IF a.n = 0 THEN NaN ELSE Inf)
    ELSE Rat(a.n * b.d, a.d * b.n)

\* total_amount / (travel_distance + 1e-9): for a positive distance the quotient
\* is just below fare/distance, which Round2Below rounds; for distance 0 it is
\* fare * 10^9.
DivEps(a, b) ==
    IF a.k = "nan" \/ b.k = "nan" THEN NaN
    ELSE IF b.n = 0 THEN (IF a.n = 0 THEN Num(0) ELSE [k |-> "big", n |-> a.n, d |-> 1])
    ELSE Rat(a.n * b.d, a.d * b.n)

\* Series.round(2), half to even.
Round2(c) ==
    IF c.k # "num" THEN c
    ELSE LET q == (100 * c.n) \div c.d
             r == (100 * c.n) % c.d
             h == IF 2 * r > c.d THEN q + 1
                  ELSE IF 2 * r < c.d THEN q
                  ELSE IF q % 2 = 0 THEN q ELSE q + 1
         IN Rat(h, 100)

\* round(2) of a value just below the rational c: a tie goes down.
Round2Below(c) ==
    IF c.k # "num" THEN c
    ELSE LET q == (100 * c.n) \div c.d
             r == (100 * c.n) % c.d
             h == IF 2 * r > c.d THEN q + 1 ELSE q
         IN Rat(h, 100)

\* replace(0, 1) left out
Replace01_Omitted(c) == c

\* Series.replace(0, 1)
Replace01(c) == IF c = Num(0) THEN Num(1) ELSE c

\* Series.replace(0, np.nan)
Replace0NaN(c) == IF c = Num(0) THEN NaN ELSE c

\* Series.replace([np.inf, -np.inf], 0)
ReplaceInf0(c) == IF c.k = "inf" THEN Num(0) ELSE c

\* Series.fillna(0)
FillNa0(c) == IF c.k = "nan" THEN Num(0) ELSE c

\* pd.to_numeric(errors='coerce')
ToNumericCoerce(c) == IF c.k = "bad" THEN NaN ELSE c

-----------------------------------------------------------------------------
(* The calendar: a day is its number in the year 2024 (1 = Monday 1 January). *)

\* Sunday 28 January (week 4), Wednesday 31 January and Thursday 1 February
\* (both week 5).
Days == {28, 31, 32}
Tods == {0, 1}      \* 0 is 00:00:00, 1 a later time of the day

MonthOf(day) == IF day <= 31 THEN 1 ELSE IF day <= 60 THEN 2 ELSE 3
WeekOf(day) == ((day - 1) \div 7) + 1
DowOf(day) == (day - 1) % 7

\* pd.to_datetime(date + " " + time), errors='raise': NaT for a missing date.
\* A text that is no date makes the call raise: see BadDate and the loaders.
ToDatetime(date, time) ==
    IF date.k = "num" THEN Ts(date.n, time) ELSE NaT

\* pd.to_datetime(errors='coerce'): NaT also for a text that is no date.
ToDatetimeCoerce(date, time) ==
    IF date.k = "num" THEN Ts(date.n, time) ELSE NaT

-----------------------------------------------------------------------------
(* The reference files: ticket_type.csv, service_type.csv,                 *)
(* form_four_trip-6.csv.  A code outside a table's domain has no entry.    *)

ticket_types == ("A" :> "Adult" @@ "7" :> "Child")
service_types == ("E" :> "EV INTERSTATE" @@ "M" :> "MANUAL LOCAL INTERSTATE")
kms_mapping == (<<"S1", "R1">> :> 7)

TicketCodes == {"A", "Z9"}
ServiceCodes == {"E", "M"}
Routes == {"R1", "R2"}
Schedules == {"S1", "S2"}

\* Series.map(dict): NaN where the dict has no such key.
MapName(code, table) == IF code \in DOMAIN table THEN table[code] ELSE NoName

\* update_travelled_km: kms_mapping.get(key, row['travelled_KM'])
update_travelled_km(row) ==
    LET key == <<row.sched, row.route>>
    IN IF key \in DOMAIN kms_mapping THEN Num(kms_mapping[key]) ELSE row.dist

-----------------------------------------------------------------------------
(* load_data, one per entry point.  Each returns [status, table]: "ok"     *)
(* with the table, "raised" when an exception leaves load_data, "stopped"  *)
(* when it ends the script with st.error and st.stop.                      *)

Entries == {"sample", "init", "month_data", "latest_drilled_down",
            "time_analytics", "time_analyse", "latest"}

Loaded(r, tt, st, ts, rpk, ppk) ==
    [date |-> r.date, time |-> r.time, fare |-> r.fare, dist |-> r.dist,
     pax |-> r.pax, tkt |-> r.tkt, svc |-> r.svc, route |-> r.route,
     sched |-> r.sched, vehicle_no |-> r.vehicle_no, idx |-> r.idx,
     ticket_type |-> tt, service_type |-> st,
     ts |-> ts, rpk |-> rpk, ppk |-> ppk]

Ok(table) == [status |-> "ok", table |-> table]
Raised == [status |-> "raised", table |-> <<>>]
Stopped == [status |-> "stopped", table |-> <<>>]

MapRows(t, F(_)) == [i \in 1 .. Len(t) |-> F(t[i])]
Keep(t, P(_)) == SelectSeq(t, P)
AnyRow(t, P(_)) == \E i \in 1 .. Len(t) : P(t[i])

\* to_datetime without errors='coerce' raises on a text that is no date;
\* arithmetic on a column holding a text that is no number raises TypeError.
BadDate(r) == r.date.k = "bad"
BadFare(r) == r.fare.k = "bad"
BadDist(r) == r.dist.k = "bad"
BadPax(r) == r.pax.k = "bad"

\* sample.py
sample_row(r) ==
    Loaded(r, MapName(r.tkt, ticket_types), MapName(r.svc, service_types),
           ToDatetime(r.date, r.time), Div(r.fare, Replace01(r.dist)), NaN)

sample_load_data(t) ==
    IF AnyRow(t, BadDate) \/ AnyRow(t, BadFare) \/ AnyRow(t, BadDist) THEN Raised
    ELSE Ok(MapRows(t, sample_row))

\* init.py: the ratios are computed from the raw distance, then the distance
\* is overridden from kms_mapping.
init_row(r) ==
    LET row == Loaded(r, MapName(r.tkt, ticket_types), MapName(r.svc, service_types),
                      ToDatetime(r.date, r.time), Div(r.fare, Replace01(r.dist)),
                      Div(r.pax, Replace01(r.dist)))
    IN [row EXCEPT !.dist = update_travelled_km(row)]

init_load_data(t) ==
    IF \/ AnyRow(t, BadDate) \/ AnyRow(t, BadFare)
       \/ AnyRow(t, BadDist) \/ AnyRow(t, BadPax) THEN Raised
    ELSE Ok(MapRows(t, init_row))

\* time_analytics.py
time_analytics_row(r) ==
    Loaded(r, r.tkt, r.svc, ToDatetime(r.date, r.time),
           Div(r.fare, Replace01(r.dist)), NaN)

time_analytics_load_data(t) ==
    IF AnyRow(t, BadDate) \/ AnyRow(t, BadFare) \/ AnyRow(t, BadDist) THEN Raised
    ELSE Ok(MapRows(t, time_analytics_row))

\* time_analyse.py: no ratio is computed.
time_analyse_row(r) ==
    Loaded(r, r.tkt, r.svc, ToDatetime(r.date, r.time), NaN, NaN)

time_analyse_load_data(t) ==
    IF AnyRow(t, BadDate) THEN Raised ELSE Ok(MapRows(t, time_analyse_row))

\* month_data.py: travel_distance itself is overwritten by replace(0, nan).
month_data_row(r) ==
    LET dist == Replace0NaN(r.dist)
        row == Loaded(r, r.tkt, r.svc, ToDatetime(r.date, r.time),
                      FillNa0(Div(r.fare, dist)), NaN)
    IN [row EXCEPT !.dist = dist]

month_data_load_data(t) ==
    IF AnyRow(t, BadDate) \/ AnyRow(t, BadFare) \/ AnyRow(t, BadDist) THEN Raised
    ELSE Ok(MapRows(t, month_data_row))

\* latest.py
\* dropna(subset=['running_date']) after to_datetime(errors='coerce')
latest_ValidDate(r) == ToDatetimeCoerce(r.date, r.time) # NaT

latest_row(r) ==
    LET fare == ToNumericCoerce(r.fare)
        dist == ToNumericCoerce(r.dist)
        Epkm == Round2(FillNa0(ReplaceInf0(Div(fare, dist))))
        row == Loaded(r, r.tkt, r.svc, ToDatetimeCoerce(r.date, r.time), Epkm, NaN)
    IN [row EXCEPT !.fare = fare, !.dist = dist,
                   !.pax = FillNa0(ToNumericCoerce(r.pax))]

\* dropna left out
latest_NoNaN_Omitted(row) == TRUE

latest_NoNaN(row) ==
    ~IsNull(row.fare) /\ ~IsNull(row.dist) /\ ~IsNull(row.rpk) /\ ~IsNull(row.pax)

latest_load_data(t) ==
    LET cleaned == Keep(MapRows(Keep(t, latest_ValidDate), latest_row), latest_NoNaN)
    IN IF cleaned = <<>> THEN Stopped ELSE Ok(cleaned)

\* latest_drilled_down.py
latest_drilled_down_row(r) ==
    LET fare == ToNumericCoerce(r.fare)
        dist == ToNumericCoerce(r.dist)
        Epkm == Round2Below(FillNa0(ReplaceInf0(DivEps(fare, dist))))
        row == Loaded(r, r.tkt, r.svc, ToDatetimeCoerce(r.date, r.time), Epkm, NaN)
    IN [row EXCEPT !.fare = fare, !.dist = dist,
                   !.pax = FillNa0(ToNumericCoerce(r.pax))]

latest_drilled_down_load_data(t) ==
    LET cleaned == Keep(MapRows(Keep(t, latest_ValidDate), latest_drilled_down_row),
                        latest_NoNaN)
    IN IF cleaned = <<>> THEN Stopped ELSE Ok(cleaned)

\* pd.read_csv / pd.read_excel: the frame's index numbers the source rows.
ReadRows(t) == [i \in 1 .. Len(t) |-> [idx |-> i] @@ t[i]]

load_data(e, t) ==
    CASE e = "sample" -> sample_load_data(ReadRows(t))
      [] e = "init" -> init_load_data(ReadRows(t))
      [] e = "month_data" -> month_data_load_data(ReadRows(t))
      [] e = "latest_drilled_down" -> latest_drilled_down_load_data(ReadRows(t))
      [] e = "time_analytics" -> time_analytics_load_data(ReadRows(t))
      [] e = "time_analyse" -> time_analyse_load_data(ReadRows(t))
      [] e = "latest" -> latest_load_data(ReadRows(t))

\* The reference files are not required: nothing is opened.
ReferenceFiles_Optional(e) == {}

\* The files each script opens: its primary source, and the reference files
\* of sample.py and init.py.
PrimaryFile == "primary"
ReferenceFiles(e) ==
    IF e = "sample" THEN {"ticket_type.csv", "service_type.csv"}
    ELSE IF e = "init" THEN {"ticket_type.csv", "service_type.csv", "form_four_trip-6.csv"}
    ELSE {}

\* month_data.py, latest.py and latest_drilled_down.py catch FileNotFoundError
\* of the primary source and stop; elsewhere it leaves load_data.
CatchesFileNotFound(e) == e \in {"month_data", "latest", "latest_drilled_down"}

\* The critical numeric columns load_data subscripts (KeyError when absent).
CriticalColumns == {"fare", "dist", "pax"}
ColumnsRead(e) ==
    CASE e \in {"init", "latest", "latest_drilled_down"} -> {"fare", "dist", "pax"}
      [] e \in {"sample", "time_analytics", "month_data"} -> {"fare", "dist"}
      [] e = "time_analyse" -> {}

\* The frame read from a source without the columns cols.
WithoutColumns(t, cols) ==
    [i \in 1 .. Len(t) |->
        [t[i] EXCEPT !.fare = IF "fare" \in cols THEN Absent ELSE @,
                     !.dist = IF "dist" \in cols THEN Absent ELSE @,
                     !.pax = IF "pax" \in cols THEN Absent ELSE @]]

\* latest_drilled_down.py: df[col] = 0 for a critical column that is not there.
AddDefaultColumns(t) ==
    [i \in 1 .. Len(t) |->
        [t[i] EXCEPT !.fare = IF @ = Absent THEN Num(0) ELSE @,
                     !.dist = IF @ = Absent THEN Num(0) ELSE @,
                     !.pax = IF @ = Absent THEN Num(0) ELSE @]]

\* DataFrame.apply(axis=1) on a frame without rows probes the function with an
\* empty row; depending on the pandas version the result is an empty Series,
\* or the frame itself, whose assignment to one column raises.
EmptyApplyOutcomes == {Ok(<<>>), Raised}

\* load_data() with the files and columns of v absent: the outcomes it can have.
LoadOutcomes(e, t, v) ==
    IF PrimaryFile \in v.files
    THEN {IF CatchesFileNotFound(e) THEN Stopped ELSE Raised}
    ELSE IF ReferenceFiles(e) \cap v.files # {} THEN {Raised}
    ELSE IF e = "latest_drilled_down"
    THEN {load_data(e, AddDefaultColumns(WithoutColumns(t, v.columns)))}
    ELSE IF ColumnsRead(e) \cap v.columns # {} THEN {Raised}
    ELSE IF e = "init" /\ t = <<>> THEN EmptyApplyOutcomes
    ELSE {load_data(e, WithoutColumns(t, v.columns))}

-----------------------------------------------------------------------------
(* The widgets and the filter block of each entry point.                   *)

Col(t, F(_)) == {F(t[i]) : i \in 1 .. Len(t)}
RowMonth(r) == MonthOf(r.ts.n)
RowWeek(r) == WeekOf(r.ts.n)
RowDow(r) == DowOf(r.ts.n)
RowService(r) == r.service_type
RowTicket(r) == r.ticket_type
RowRoute(r) == r.route

ValidDays(t) == {t[i].ts.n : i \in {j \in 1 .. Len(t) : t[j].ts.k = "ts"}}
MinOf(S) == CHOOSE x \in S : \A y \in S : x <= y
MaxOf(S) == CHOOSE x \in S : \A y \in S : y <= x

\* st.date_input(value=[min, max]) yields the two calendar dates.
DefaultDates(t) == <<MinOf(ValidDays(t)), MaxOf(ValidDays(t))>>

HasDateInput(e) == e \in {"sample", "init", "month_data", "time_analytics", "time_analyse"}
HasServiceFilter(e) == e \in {"sample", "init", "month_data", "latest", "latest_drilled_down"}
HasTicketFilter(e) == e \in {"sample", "init", "time_analyse"}
HasRouteFilter(e) == e \in {"init", "month_data", "time_analytics", "time_analyse",
                            "latest", "latest_drilled_down"}
HasMonthFilter(e) == e \in {"month_data", "latest", "latest_drilled_down"}
HasWeekFilter(e) == e \in {"latest", "latest_drilled_down"}
HasDowFilter(e) == e \in {"month_data", "latest", "latest_drilled_down"}
HasTab4(e) == e \in {"latest", "latest_drilled_down"}

Pages(e) == IF e = "init" THEN {"Summary Overview", "Route Optimization"}
            ELSE {"main"}
FirstPage(e) == IF e = "init" THEN "Summary Overview" ELSE "main"

\* The multiselects whose default is every option.
Defaults(e, t) ==
    [dates |-> DefaultDates(t),
     service |-> IF e = "sample" THEN Col(t, RowService) ELSE {},
     ticket |-> IF e \in {"sample", "time_analyse"} THEN Col(t, RowTicket) ELSE {},
     route |-> IF e = "time_analyse" THEN Col(t, RowRoute) ELSE {},
     month |-> {},
     week |-> {},
     dow |-> {},
     tab4route |-> IF e = "latest" THEN Col(t, RowRoute) ELSE {},
     route_option |-> "All"]

\* The week multiselect is drawn only when exactly one month is selected;
\* otherwise week_filter is None.
WeekShown(e, s) == HasWeekFilter(e) /\ Cardinality(s.month) = 1
WeekOptions(t, s) == {RowWeek(t[i]) : i \in {j \in 1 .. Len(t) : RowMonth(t[j]) \in s.month}}

\* a <= b on timestamps
TsLe(a, b) == a.n < b.n \/ (a.n = b.n /\ a.d <= b.d)

\* Series.between(pd.to_datetime(d0), pd.to_datetime(d1)): both bounds are the
\* midnights of the two dates.
Between(ts, dates) ==
    ts.k = "ts" /\ TsLe(Ts(dates[1], 0), ts) /\ TsLe(ts, Ts(dates[2], 0))

\* ticket_datetime.dt.date >= d0 and <= d1: a comparison of calendar dates.
DateBetween(ts, dates) ==
    ts.k = "ts" /\ dates[1] <= ts.n /\ ts.n <= dates[2]

\* Series.isin(values)
IsIn(x, values) == x \in values

sample_filtered_df(t, s) ==
    LET P(r) == /\ IsIn(r.ticket_type, s.ticket)
                /\ IsIn(r.service_type, s.service)
                /\ Between(r.ts, s.dates)
    IN Keep(t, P)

init_filtered_df(t, s) ==
    LET P(r) == Between(r.ts, s.dates) /\ IsIn(r.service_type, s.service)
        Q(r) == Between(r.ts, s.dates)
    IN IF s.service # {} THEN Keep(t, P) ELSE Keep(t, Q)

month_data_filtered_df(t, s) ==
    LET active_service_types == IF s.service # {} THEN s.service ELSE Col(t, RowService)
        active_routes == IF s.route # {} THEN s.route ELSE Col(t, RowRoute)
        active_days == IF s.dow # {} THEN s.dow ELSE Col(t, RowDow)
        active_months == IF s.month # {} THEN s.month ELSE Col(t, RowMonth)
        P(r) == /\ DateBetween(r.ts, s.dates)
                /\ IsIn(r.service_type, active_service_types)
                /\ IsIn(r.route, active_routes)
                /\ IsIn(RowDow(r), active_days)
                /\ IsIn(RowMonth(r), active_months)
    IN Keep(t, P)

\* latest.py and latest_drilled_down.py: filter_condition
filter_condition(e, s, r) ==
    /\ (s.month # {} => IsIn(RowMonth(r), s.month))
    /\ ((WeekShown(e, s) /\ s.week # {}) => IsIn(RowWeek(r), s.week))
    /\ (s.dow # {} => IsIn(RowDow(r), s.dow))
    /\ (s.service # {} => IsIn(r.service_type, s.service))
    /\ (s.route # {} => IsIn(r.route, s.route))

latest_filtered_df(e, t, s) ==
    LET P(r) == filter_condition(e, s, r) IN Keep(t, P)

time_analytics_filtered_df(t, s) ==
    LET routes == IF s.route # {} THEN s.route ELSE Col(t, RowRoute)
        P(r) == Between(r.ts, s.dates) /\ IsIn(r.route, routes)
    IN Keep(t, P)

time_analyse_filtered_df(t, s) ==
    LET P(r) == /\ DateBetween(r.ts, s.dates)
                /\ IsIn(r.route, s.route)
                /\ IsIn(r.ticket_type, s.ticket)
    IN Keep(t, P)

filtered_df(e, t, s) ==
    CASE e = "sample" -> sample_filtered_df(t, s)
      [] e = "init" -> init_filtered_df(t, s)
      [] e = "month_data" -> month_data_filtered_df(t, s)
      [] e \in {"latest", "latest_drilled_down"} -> latest_filtered_df(e, t, s)
      [] e = "time_analytics" -> time_analytics_filtered_df(t, s)
      [] e = "time_analyse" -> time_analyse_filtered_df(t, s)

-----------------------------------------------------------------------------
(* The page below the filter block: its own subset, and how the run ends:  *)
(* "shown" (every widget drawn), "empty_state" (an explicit no-data        *)
(* message) or "raised" (an exception reaches Streamlit).                  *)

\* init.py, Summary Overview
summary_df(t, s) ==
    LET f == init_filtered_df(t, s)
        P(r) == IsIn(r.ticket_type, s.ticket)
        Q(r) == IsIn(r.route, s.route)
        g == IF s.ticket # {} THEN Keep(f, P) ELSE f
    IN IF s.route # {} THEN Keep(g, Q) ELSE g

\* Series.max() skips NaN and is NaN for an empty or all-NaN column.
NumCells(t) == {t[i].dist : i \in {j \in 1 .. Len(t) : t[j].dist.k = "num"}}
CellLe(a, b) == a.n * b.d <= b.n * a.d
ColMax(t) ==
    IF NumCells(t) = {} THEN NaN
    ELSE CHOOSE x \in NumCells(t) : \A y \in NumCells(t) : CellLe(y, x)

\* int(x) of a number that is not NaN
IntOf(c) == c.n \div c.d

\* init.py, Route Optimization, with min_distance and max_distance left at
\* their defaults 0 and int(filtered_df['travelled_KM'].max()).
optimization_df(t, s) ==
    LET f == init_filtered_df(t, s)
        max_distance == IntOf(ColMax(f))
        P(r) == r.route = s.route_option
        g == IF s.route_option # "All" THEN Keep(f, P) ELSE f
        Q(r) == r.dist.k = "num" /\ CellLe(Num(0), r.dist) /\ CellLe(r.dist, Num(max_distance))
    IN Keep(g, Q)

\* latest.py tab4: isin(route_filter_tab4); latest_drilled_down.py tab4: an
\* empty selection gives an empty frame.
tab4_filtered_df(e, f, s) ==
    LET P(r) == IsIn(r.route, s.tab4route)
    IN IF e = "latest" THEN Keep(f, P)
       ELSE IF s.tab4route # {} THEN Keep(f, P) ELSE <<>>

\* resample('D') has one bucket per day from the first to the last day;
\* seasonal_decompose(period=7) needs 14 observations.
DailyBuckets(f) ==
    IF ValidDays(f) = {} THEN 0 ELSE MaxOf(ValidDays(f)) - MinOf(ValidDays(f)) + 1

Result(status, f, sub) == [status |-> status, filtered |-> f, sub |-> sub]

RunScript(e, t, s, p) ==
    LET f == filtered_df(e, t, s)
    IN CASE e = "sample" ->
              \* route_passengers.idxmax() of an empty series raises
              Result(IF f = <<>> THEN "raised" ELSE "shown", f, f)
         [] e = "init" /\ p = "Summary Overview" ->
              Result("shown", f, summary_df(t, s))
         [] e = "init" /\ p = "Route Optimization" ->
              \* int(nan) raises
              IF ColMax(f).k = "nan" THEN Result("raised", f, <<>>)
              ELSE Result("shown", f, optimization_df(t, s))
         [] e = "month_data" ->
              Result(IF f = <<>> THEN "empty_state" ELSE "shown", f, f)
         [] e \in {"latest", "latest_drilled_down"} ->
              IF f = <<>> THEN Result("empty_state", f, <<>>)
              ELSE Result("shown", f, tab4_filtered_df(e, f, s))
         [] e = "time_analytics" ->
              Result(IF DailyBuckets(f) < 14 THEN "raised" ELSE "shown", f, f)
         [] e = "time_analyse" ->
              \* monthly_data.iloc[-1] of an empty frame raises
              Result(IF f = <<>> THEN "raised" ELSE "shown", f, f)

NoResult == Result("none", <<>>, <<>>)
NoSel == [dates |-> <<0, 0>>, service |-> {}, ticket |-> {}, route |-> {},
          month |-> {}, week |-> {}, dow |-> {}, tab4route |-> {},
          route_option |-> "All"]

-----------------------------------------------------------------------------
(* The aggregations the pages compute from their subset.  A grouped result *)
(* is a sequence of records [key, value, ...] in the order pandas gives.   *)

\* Program constants.
TopN == 5               \* nlargest(5) / nsmallest(5)
TopTen == 10            \* nlargest(10)
SliderMin == 5          \* st.slider(min_value=5, ...)
SliderCap == 20         \* max_value=min(20, nunique())
SliderValue == 10       \* value=10

\* groupby sorts its keys: the key universes in ascending order.
RouteOrder == <<"R0", "R1", "R2", "R3", "R4", "R5", "R6", "R7", "R8", "R9", "RA">>
ScheduleOrder == <<"S1", "S2">>
MonthOrder == <<1, 2, 3>>
HourOrder == <<0, 1>>

RowSchedule(r) == r.sched
RowHour(r) == r.ts.d
RowFare(r) == r.fare
RowDist(r) == r.dist
RowPax(r) == r.pax
RowRpk(r) == r.rpk
RowPpk(r) == r.ppk

AddCell(a, b) == Rat(a.n * b.d + b.n * a.d, a.d * b.d)

\* Series.sum(): NaN is skipped, the sum of nothing is 0.
RECURSIVE SumCells(_)
SumCells(cells) ==
    IF cells = <<>> THEN Num(0)
    ELSE IF Head(cells).k = "num" THEN AddCell(Head(cells), SumCells(Tail(cells)))
    ELSE SumCells(Tail(cells))

NotNaN(c) == c.k = "num"

\* Series.mean(): NaN is skipped, the mean of nothing is NaN.
MeanCells(cells) ==
    LET valid == SelectSeq(cells, NotNaN)
    IN Div(SumCells(valid), Num(Len(valid)))

\* The rows of one group, and the keys that have a group: a missing key has
\* none (dropna=True).
GroupRows(t, K(_), k) == LET P(r) == K(r) = k IN SelectSeq(t, P)
GroupKeys(t, K(_), order) ==
    LET P(k) == \E i \in 1 .. Len(t) : K(t[i]) = k IN SelectSeq(order, P)

\* groupby(key)[column].sum()
GroupSum(t, K(_), V(_), order) ==
    LET keys == GroupKeys(t, K, order)
    IN [i \in 1 .. Len(keys) |->
           [key |-> keys[i], value |-> SumCells(MapRows(GroupRows(t, K, keys[i]), V))]]

\* groupby(key)[column].mean()
GroupMean(t, K(_), V(_), order) ==
    LET keys == GroupKeys(t, K, order)
    IN [i \in 1 .. Len(keys) |->
           [key |-> keys[i], value |-> MeanCells(MapRows(GroupRows(t, K, keys[i]), V))]]

CellLt(a, b) == a.n * b.d < b.n * a.d

\* The place of g[i] once g is sorted by value, equal values keeping the
\* order they have in g.
RankDesc(g, i) ==
    Cardinality({j \in 1 .. Len(g) :
        CellLt(g[i].value, g[j].value) \/ (g[j].value = g[i].value /\ j < i)}) + 1
RankAsc(g, i) ==
    Cardinality({j \in 1 .. Len(g) :
        CellLt(g[j].value, g[i].value) \/ (g[j].value = g[i].value /\ j < i)}) + 1

SortDesc(g) == [p \in 1 .. Len(g) |-> g[CHOOSE i \in 1 .. Len(g) : RankDesc(g, i) = p]]
SortAsc(g) == [p \in 1 .. Len(g) |-> g[CHOOSE i \in 1 .. Len(g) : RankAsc(g, i) = p]]

FirstRows(g, n) == SubSeq(g, 1, IF n < Len(g) THEN n ELSE Len(g))

\* keep='first' is left out: among equal values the last in g come first.
RankDescLast(g, i) ==
    Cardinality({j \in 1 .. Len(g) :
        CellLt(g[i].value, g[j].value) \/ (g[j].value = g[i].value /\ j > i)}) + 1
nlargest_KeepLast(n, g) ==
    FirstRows([p \in 1 .. Len(g) |-> g[CHOOSE i \in 1 .. Len(g) : RankDescLast(g, i) = p]], n)

\* nlargest(n) gives nothing when there are fewer than n rows.
nlargest_NoneWhenShort(n, g) == IF n > Len(g) THEN <<>> ELSE FirstRows(SortDesc(g), n)

\* Series.nlargest(n) / DataFrame.nlargest(n, column), keep='first'
nlargest(n, g) == FirstRows(SortDesc(g), n)

\* nsmallest(n) takes the rows from the wrong end.
nsmallest_Largest(n, g) == FirstRows(SortDesc(g), n)

\* Series.nsmallest(n), keep='first'
nsmallest(n, g) == FirstRows(SortAsc(g), n)

\* init.py, Summary Overview
init_route_passengers_top(t) ==
    SortDesc(nlargest(TopN, GroupSum(t, RowRoute, RowPax, RouteOrder)))
init_route_passengers_bottom(t) ==
    SortDesc(nsmallest(TopN, GroupSum(t, RowRoute, RowPax, RouteOrder)))

\* month_data.py, tab2
month_data_route_passengers_top(t) ==
    nlargest(TopN, GroupSum(t, RowRoute, RowPax, RouteOrder))
month_data_route_passengers_bottom(t) ==
    nsmallest(TopN, GroupSum(t, RowRoute, RowPax, RouteOrder))

\* groupby("month") puts the month names in alphabetical order (February,
\* January, March); sort_values("Month_Number") then puts them in calendar order.
MonthNameOrder == <<2, 1, 3>>

\* sort_values("Month_Number") is left out.
SortByMonthNumber_Omitted(g) == g

SortByMonthNumber(g) ==
    LET P(m) == \E i \in 1 .. Len(g) : g[i].key = m
        months == SelectSeq(MonthOrder, P)
    IN [p \in 1 .. Len(months) |-> g[CHOOSE i \in 1 .. Len(g) : g[i].key = months[p]]]

\* month_data.py, tab4 (Total_Passengers)
month_wise_df(t) == SortByMonthNumber(GroupSum(t, RowMonth, RowPax, MonthNameOrder))

\* The quotient of two aggregates as the pages compute it: no page tests the
\* denominator.
AggregateRatio(a, b) == Div(a, b)

\* init.py, Route Performance: route_df and schedule_stats
route_df(f, selected_route) == LET P(r) == r.route = selected_route IN SelectSeq(f, P)

schedule_stats(t) ==
    LET revenue == GroupSum(t, RowSchedule, RowFare, ScheduleOrder)
        distance == GroupMean(t, RowSchedule, RowDist, ScheduleOrder)
    IN [i \in 1 .. Len(revenue) |->
           [key |-> revenue[i].key, value |-> revenue[i].value,
            travelled_KM |-> distance[i].value,
            epkm |-> AggregateRatio(revenue[i].value, distance[i].value)]]

\* init.py, Route Optimization: `x / y if y else 0`; NaN is true in Python.
efficiency_score(t) ==
    LET avg_passenger_km == MeanCells(MapRows(t, RowPpk))
        avg_revenue_km == MeanCells(MapRows(t, RowRpk))
    IN IF avg_passenger_km = Num(0) THEN Num(0)
       ELSE AggregateRatio(avg_revenue_km, avg_passenger_km)

\* init.py, Fleet Monitoring
fleet_df(t) == LET P(r) == DateBetween(r.ts, DefaultDates(t)) IN SelectSeq(t, P)

\* groupby(ticket_datetime.dt.to_period('M')): the months that have rows.
distance_trend(t) == GroupSum(t, RowMonth, RowDist, MonthOrder)

\* time_analytics.py, tab2
rev_by_route(t) == nlargest(TopTen, GroupSum(t, RowRoute, RowFare, RouteOrder))

time_epkm(t) ==
    LET revenue == GroupSum(t, RowHour, RowFare, HourOrder)
        distance == GroupSum(t, RowHour, RowDist, HourOrder)
    IN [i \in 1 .. Len(revenue) |->
           [key |-> revenue[i].key, value |-> revenue[i].value,
            distance |-> distance[i].value,
            epkm |-> AggregateRatio(revenue[i].value, distance[i].value)]]

\* The labels of st.radio("Time Granularity"), letter by letter.
Hourly == <<"H", "o", "u", "r", "l", "y">>
Daily == <<"D", "a", "i", "l", "y">>
Weekly == <<"W", "e", "e", "k", "l", "y">>
Monthly == <<"M", "o", "n", "t", "h", "l", "y">>
GranularityLabels == {Hourly, Daily, Weekly, Monthly}

\* str.lower() and str.upper(), letter by letter.
LowerLetters == <<"a", "b", "c", "d", "e", "f", "g", "h", "i", "j", "k", "l", "m",
                  "n", "o", "p", "q", "r", "s", "t", "u", "v", "w", "x", "y", "z">>
UpperLetters == <<"A", "B", "C", "D", "E", "F", "G", "H", "I", "J", "K", "L", "M",
                  "N", "O", "P", "Q", "R", "S", "T", "U", "V", "W", "X", "Y", "Z">>
LetterPlace(letters, c) == CHOOSE i \in 1 .. Len(letters) : letters[i] = c
lower(c) ==
    IF \E i \in 1 .. Len(UpperLetters) : UpperLetters[i] = c
    THEN LowerLetters[LetterPlace(UpperLetters, c)] ELSE c
upper(c) ==
    IF \E i \in 1 .. Len(LowerLetters) : LowerLetters[i] = c
    THEN UpperLetters[LetterPlace(LowerLetters, c)] ELSE c

\* time_granularity[:-2].lower(): "Hourly" -> "hour", "Daily" -> "dai"
revenue_period(time_granularity) ==
    LET cut == SubSeq(time_granularity, 1, Len(time_granularity) - 2)
    IN [i \in 1 .. Len(cut) |-> lower(cut[i])]

\* Every trend is resampled by day, as the anomaly chart is.
resample_rule_Daily(time_granularity) == "D"

\* period[0].upper(), the rule given to resample
resample_rule(time_granularity) == upper(revenue_period(time_granularity)[1])

\* tab1: the columns heatmap_data is grouped by
heatmap_columns(time_granularity) ==
    IF time_granularity = Hourly THEN <<"day_of_week", "hour">>
    ELSE LET period == IF time_granularity = Daily THEN "date"
                       ELSE IF time_granularity = Weekly THEN "week" ELSE "month"
         IN <<period, "day_of_week">>

ColumnOf(r, column) ==
    CASE column = "date" -> r.ts.n
      [] column = "week" -> RowWeek(r)
      [] column = "month" -> RowMonth(r)
      [] column = "hour" -> RowHour(r)
      [] column = "day_of_week" -> RowDow(r)

\* The cells of heatmap_data that hold a sum: the pairs of keys with rows.
heatmap_cells(t, time_granularity) ==
    LET by == heatmap_columns(time_granularity)
    IN {<<ColumnOf(t[i], by[1]), ColumnOf(t[i], by[2])>> : i \in 1 .. Len(t)}

\* The radio is drawn by time_analytics.py only; its default is index=1.
GranularityChoices(e) == IF e = "time_analytics" THEN GranularityLabels ELSE {Daily}

\* latest_drilled_down.py, tab5
route_passengers(t) == nlargest(TopTen, GroupSum(t, RowRoute, RowPax, RouteOrder))

\* latest_drilled_down.py, tab7, Route Efficiency.  st.slider widens its
\* bounds so that min <= max and min <= value <= max.
MinInt(a, b) == IF a < b THEN a ELSE b
MaxInt(a, b) == IF a < b THEN b ELSE a
SliderChoices(nunique) ==
    LET max_value == MinInt(SliderCap, nunique)
        lo == MinInt(SliderValue, MinInt(SliderMin, max_value))
        hi == MaxInt(SliderValue, MaxInt(lo, max_value))
    IN lo .. hi

route_stats(t) == GroupMean(t, RowRoute, RowRpk, RouteOrder)
top_routes(t, top_n) == nlargest(top_n, route_stats(t))

\* Only the months that have rows get a bin.
MonthBins_WithRows(t) == LET P(m) == m \in Col(t, RowMonth) IN SelectSeq(MonthOrder, P)

\* latest_drilled_down.py, tab6: pd.Grouper(key='running_date', freq='M') has
\* a bin for every month from the first to the last.
MonthBins(t) ==
    LET months == Col(t, RowMonth)
        P(m) == months # {} /\ MinOf(months) <= m /\ m <= MaxOf(months)
    IN SelectSeq(MonthOrder, P)

monthly_trend(t) ==
    LET bins == MonthBins(t)
    IN [i \in 1 .. Len(bins) |->
           [key |-> bins[i],
            value |-> SumCells(MapRows(GroupRows(t, RowMonth, bins[i]), RowPax)),
            avg_daily_passengers |-> MeanCells(MapRows(GroupRows(t, RowMonth, bins[i]), RowPax))]]

\* Series.corr (Pearson) of two numeric columns.  With n rows,
\*   sxx = n * sum(x^2) - sum(x)^2, syy likewise, sxy = n * sum(x*y) - sum(x) * sum(y),
\* the coefficient is sxy / sqrt(sxx * syy); it is NaN when there are fewer than
\* two rows or when either column has zero variance.  A number is kept as its
\* signed square, sign(sxy) * sxy^2 / (sxx * syy), which is rational.
CellInts(cells) == [i \in 1 .. Len(cells) |-> cells[i].n]
RECURSIVE SumInts(_)
SumInts(xs) == IF xs = <<>> THEN 0 ELSE Head(xs) + SumInts(Tail(xs))
CoMoment(xs, ys) ==
    Len(xs) * SumInts([i \in 1 .. Len(xs) |-> xs[i] * ys[i]]) - SumInts(xs) * SumInts(ys)

corr(xs, ys) ==
    IF Len(xs) < 2 \/ CoMoment(xs, xs) = 0 \/ CoMoment(ys, ys) = 0 THEN NaN
    ELSE LET sxy == CoMoment(xs, ys)
         IN Rat((IF sxy < 0 THEN 0 - 1 ELSE 1) * sxy * sxy, CoMoment(xs, xs) * CoMoment(ys, ys))

\* latest_drilled_down.py, tab6, Passenger vs Revenue Correlation
correlation(t) == corr(CellInts(MapRows(t, RowPax)), CellInts(MapRows(t, RowFare)))

\* f"{correlation:.2f}": digits for a number, the text nan for NaN.
FormatFixed2(c) == IF c.k = "nan" THEN "nan" ELSE "digits"

\* The chart title always carries the formatted coefficient.
correlation_title(t) ==
    [text |-> "Passenger-Revenue Relationship (Correlation: )",
     correlation |-> FormatFixed2(correlation(t))]

\* groupby('service_type').apply(lambda x: x['total_count'].corr(x['total_amount']))
ServiceOrder == <<"EV INTERSTATE", "MANUAL LOCAL INTERSTATE", "E", "M", "nan">>
service_correlations(t) ==
    LET keys == GroupKeys(t, RowService, ServiceOrder)
    IN [i \in 1 .. Len(keys) |->
           [key |-> keys[i], value |-> correlation(GroupRows(t, RowService, keys[i]))]]

\* latest_drilled_down.py, tab7, Outlier Detection.  Series.std (ddof=1) is
\* kept as its square, the sample variance: NaN for fewer than two values, 0
\* when all the values are equal.
MulCell(a, b) == Rat(a.n * b.n, a.d * b.d)
SubCell(a, b) == Rat(a.n * b.d - b.n * a.d, a.d * b.d)
SampleVariance(cells) ==
    LET valid == SelectSeq(cells, NotNaN)
        n == Len(valid)
        squares == [i \in 1 .. n |-> MulCell(valid[i], valid[i])]
    IN IF n < 2 THEN NaN
       ELSE Div(SubCell(MulCell(Num(n), SumCells(squares)),
                        MulCell(SumCells(valid), SumCells(valid))),
                Num(n * (n - 1)))

\* The square of (x - mean) / std
ZScoreSquared(x, cells) ==
    LET d == SubCell(x, MeanCells(cells)) IN Div(MulCell(d, d), SampleVariance(cells))

\* `if not empty and std > 0` ... `elif std == 0` ... `else`: a comparison
\* with NaN is false.
outlier_detection(t) ==
    LET epkm == MapRows(t, RowRpk)
        variance == SampleVariance(epkm)
    IN IF t # <<>> /\ variance.k = "num" /\ variance.n > 0
       THEN [outcome |-> "scores",
             epkm_zscore |-> [i \in 1 .. Len(t) |-> ZScoreSquared(epkm[i], epkm)]]
       ELSE IF variance = Num(0)
       THEN [outcome |-> "constant", epkm_zscore |-> <<>>]
       ELSE [outcome |-> "no data", epkm_zscore |-> <<>>]

\* The frames a page writes columns into, and how each frame was made.  A
\* frame made by .copy(), by indexing with a boolean mask or by an aggregation
\* has its own data; a plain reference would share the data of df.
PageWrites(e, p) ==
    CASE e = "init" /\ p = "Route Performance" ->
            {[frame |-> "schedule_stats", column |-> "epkm"]}
      [] e = "init" /\ p = "Fleet Monitoring" ->
            {[frame |-> "fleet_df", column |-> "rows"],
             [frame |-> "distance_trend", column |-> "ticket_datetime"]}
      [] e = "sample" ->
            {[frame |-> "sustainability_df", column |-> "bus_type"],
             [frame |-> "route_stats", column |-> "efficiency_score"]}
      [] e = "latest_drilled_down" ->
            {[frame |-> "df_for_outliers", column |-> "epkm_zscore"],
             [frame |-> "yoy_data", column |-> "year"]}
      [] e = "month_data" ->
            {[frame |-> "month_wise_df", column |-> "Month_Number"]}
      [] OTHER -> {}

\* No frame is copied.
FrameMadeBy_Reference(frame) == "reference"

FrameMadeBy(frame) ==
    IF frame \in {"fleet_df", "sustainability_df", "df_for_outliers", "yoy_data"}
    THEN "copy" ELSE "aggregation"

\* df once the page has run: a column written into a frame that shares the
\* data of df shows up in df.
page_effect(e, p, t) ==
    LET shared == {w \in PageWrites(e, p) : FrameMadeBy(w.frame) = "reference"}
    IN IF shared = {} THEN t
       ELSE [i \in 1 .. Len(t) |-> [written |-> {w.column : w \in shared}] @@ t[i]]

\* What a page computes from its subset.
AggEntries == {"init", "month_data", "latest_drilled_down", "time_analytics", "sample"}
AggPages(e) ==
    IF e = "init"
    THEN {"Summary Overview", "Route Performance", "Route Optimization", "Fleet Monitoring"}
    ELSE {"main"}

Views(e, p, t, o, s, selected_route, top_n, time_granularity) ==
    CASE e = "init" /\ p = "Summary Overview" ->
            [view |-> "summary", subset |-> o.sub,
             top |-> init_route_passengers_top(o.sub),
             bottom |-> init_route_passengers_bottom(o.sub)]
      [] e = "init" /\ p = "Route Performance" ->
            [view |-> "route", subset |-> route_df(o.filtered, selected_route),
             groups |-> schedule_stats(route_df(o.filtered, selected_route))]
      [] e = "init" /\ p = "Route Optimization" ->
            IF ColMax(o.filtered).k = "nan" THEN [view |-> "raised"]
            ELSE [view |-> "optimization", subset |-> optimization_df(t, s),
                  score |-> efficiency_score(optimization_df(t, s))]
      [] e = "init" /\ p = "Fleet Monitoring" ->
            [view |-> "fleet", subset |-> fleet_df(t), buckets |-> distance_trend(fleet_df(t))]
      [] e = "month_data" ->
            [view |-> "month_data", subset |-> o.filtered,
             top |-> month_data_route_passengers_top(o.filtered),
             bottom |-> month_data_route_passengers_bottom(o.filtered),
             groups |-> month_wise_df(o.filtered)]
      [] e = "latest_drilled_down" ->
            [view |-> "latest_drilled_down", subset |-> o.filtered, n |-> top_n,
             top |-> route_passengers(o.filtered),
             top_routes |-> top_routes(o.filtered, top_n),
             buckets |-> monthly_trend(o.filtered),
             correlation |-> correlation(o.filtered),
             title |-> correlation_title(o.filtered),
             service_correlations |-> service_correlations(o.filtered),
             outliers |-> outlier_detection(o.filtered)]
      [] e = "time_analytics" ->
            [view |-> "time_analytics", subset |-> o.filtered,
             time_granularity |-> time_granularity,
             heatmap_columns |-> heatmap_columns(time_granularity),
             heatmap_cells |-> heatmap_cells(o.filtered, time_granularity),
             rule |-> resample_rule(time_granularity),
             top |-> rev_by_route(o.filtered),
             groups |-> time_epkm(o.filtered)]
      [] e = "sample" ->
            [view |-> "sample", subset |-> o.filtered]

-----------------------------------------------------------------------------
(* The pages of init.py with their own selections.                         *)

InitPages == {"Summary Overview", "Fleet Monitoring", "Route Performance",
              "Route Optimization", "Sustainability"}

RowVehicle(r) == r.vehicle_no

\* The first option of the vehicle selectbox.
AllVehicles == [k |-> "All", n |-> 0, d |-> 1]

\* A vehicle number read as text.
Plate(n) == [k |-> "str", n |-> n, d |-> 1]

\* sorted(df['vehicle_no'].unique()): comparing a str with the float NaN raises
\* TypeError; numbers and NaN compare without raising.
vehicle_options_raise(t) ==
    /\ NaN \in Col(t, RowVehicle)
    /\ \E v \in Col(t, RowVehicle) : v.k = "str"

\* Fleet Monitoring starts from df, not from filtered_df.
fleet_df_selected(t, selected_vehicle, date_range) ==
    LET P(r) == r.vehicle_no = selected_vehicle
        Q(r) == DateBetween(r.ts, date_range)
        f == IF selected_vehicle # AllVehicles THEN SelectSeq(t, P) ELSE t
    IN SelectSeq(f, Q)

\* Series.unique().size counts NaN as a value; Series.nunique() does not.
active_vehicles(f) == Cardinality(Col(f, RowVehicle))
total_vehicles(t) == Cardinality({v \in Col(t, RowVehicle) : v.k # "nan"})
idle_vehicles(t, f) == total_vehicles(t) - active_vehicles(f)

\* Sustainability
sustain_df(f, bus_type_option) ==
    LET P(r) == r.service_type = bus_type_option
    IN IF bus_type_option \in {"EV INTERSTATE", "MANUAL LOCAL INTERSTATE"}
       THEN SelectSeq(f, P) ELSE f

ServiceDistance(f, name) ==
    LET P(r) == r.service_type = name IN SumCells(MapRows(SelectSeq(f, P), RowDist))

diesel_emission_factor == Rat(3, 10)

co2_saved(f) ==
    LET total_distance_diesel == ServiceDistance(f, "MANUAL LOCAL INTERSTATE")
        total_distance_all == SumCells(MapRows(f, RowDist))
    IN SubCell(MulCell(total_distance_all, diesel_emission_factor),
               MulCell(total_distance_diesel, diesel_emission_factor))

sustainability_insight(f) ==
    IF CellLt(Num(0), ServiceDistance(f, "EV INTERSTATE")) THEN "reduction"
    ELSE "No EV buses in operation"

InitView(p, t, s, selected_route, selected_vehicle, fleet_dates, bus_type_option) ==
    LET f == init_filtered_df(t, s)
    IN CASE p = "Summary Overview" ->
              [view |-> "init page", page |-> p, subset |-> summary_df(t, s)]
         [] p = "Route Performance" ->
              [view |-> "init page", page |-> p, subset |-> route_df(f, selected_route)]
         [] p = "Route Optimization" ->
              IF ColMax(f).k = "nan" THEN [view |-> "raised", page |-> p]
              ELSE [view |-> "init page", page |-> p, subset |-> optimization_df(t, s)]
         [] p = "Fleet Monitoring" ->
              LET fleet == fleet_df_selected(t, selected_vehicle, fleet_dates)
              IN IF vehicle_options_raise(t) THEN [view |-> "raised", page |-> p]
                 ELSE
                 [view |-> "init page", page |-> p, subset |-> fleet,
                  total_vehicles |-> total_vehicles(t),
                  active_vehicles |-> active_vehicles(fleet),
                  idle_vehicles |-> idle_vehicles(t, fleet)]
         [] p = "Sustainability" ->
              LET sustain == sustain_df(f, bus_type_option)
              IN [view |-> "init page", page |-> p, subset |-> sustain,
                  total_distance_ev |-> ServiceDistance(sustain, "EV INTERSTATE"),
                  co2_saved |-> co2_saved(sustain),
                  insight |-> sustainability_insight(sustain)]

-----------------------------------------------------------------------------
(* load_data of init.py, chunk by chunk.                                   *)

\* pd.read_csv(chunksize=...) infers the type of a column for each chunk on its
\* own: a chunk whose ticket codes all look like numbers has an integer
\* column, any other chunk a column of texts.  The ids of ticket_type.csv are
\* texts (one of them is a letter), so an integer code is no key of the
\* mapping.  "#7" stands for the integer 7.
NumericCodes == {"7"}
IntegerOf == ("7" :> "#7")

read_chunk(rows) ==
    IF rows # <<>> /\ \A i \in 1 .. Len(rows) : rows[i].tkt \in NumericCodes
    THEN [i \in 1 .. Len(rows) |-> [rows[i] EXCEPT !.tkt = IntegerOf[@]]]
    ELSE rows

\* The reader yields consecutive chunks of chunk_size rows, the last one
\* shorter; a file with a header and no rows yields one empty chunk.
ChunkCount(t, chunk_size) ==
    IF t = <<>> THEN 1 ELSE (Len(t) + chunk_size - 1) \div chunk_size
ChunkRows(t, chunk_size, i) ==
    SubSeq(ReadRows(t), i * chunk_size + 1, MinInt((i + 1) * chunk_size, Len(t)))

\* The transformations of one chunk (lines 99-117 for the first, 119-128 for
\* the others): the same as those of a whole table.
transform_chunk(chunk) ==
    IF chunk = <<>> THEN EmptyApplyOutcomes ELSE {init_load_data(chunk)}

LoadStart(chunk_size) ==
    [pc |-> "Idle", chunk_size |-> chunk_size, i |-> 0, chunk |-> <<>>,
     master |-> <<>>, lookups |-> 0, log |-> <<>>]

-----------------------------------------------------------------------------
(* The source files a run starts from.                                     *)

RawRow(date, time, fare, dist, pax, tkt, svc, route, sched) ==
    [date |-> date, time |-> time, fare |-> fare, dist |-> dist, pax |-> pax,
     tkt |-> tkt, svc |-> svc, route |-> route, sched |-> sched, vehicle_no |-> Num(1)]

UsesLookups(e) == e \in {"sample", "init"}
UsesTime(e) == e \in {"sample", "init", "time_analytics", "time_analyse"}

\* Rows that differ in what the filters read.
FilterRows(e) ==
    {RawRow(Num(day), tod, Num(100), Num(4), Num(5), tkt, svc, route, "S2") :
        day \in Days,
        tod \in IF UsesTime(e) THEN Tods ELSE {0},
        tkt \in IF e \in {"sample", "time_analyse"} THEN TicketCodes ELSE {"A"},
        svc \in IF HasServiceFilter(e) THEN ServiceCodes ELSE {"E"},
        route \in IF HasRouteFilter(e) THEN Routes ELSE {"R1"}}

\* Rows that differ in what load_data reads.
LoadRows(e) ==
    {RawRow(date, 1, fare, dist, pax, tkt, "E", "R1", sched) :
        date \in {Num(31), NaN, Bad},
        fare \in {Num(0), Num(100), Bad},
        dist \in {Num(0), Num(4), NaN, Bad},
        pax \in IF e \in {"latest", "latest_drilled_down"} THEN {Num(5), Bad} ELSE {Num(5)},
        tkt \in IF UsesLookups(e) THEN TicketCodes ELSE {"A"},
        sched \in IF e = "init" THEN Schedules ELSE {"S2"}}

Tables(pool, least) == UNION {[1 .. n -> pool] : n \in least .. MaxRows}

\* Every file and every column is there.
AllPresent == [files |-> {}, columns |-> {}]

NoAgg == [view |-> "none"]

\* load_data is not followed step by step.
NoLoad == [pc |-> "none"]

Start ==
    /\ phase = "start"
    /\ agg = NoAgg
    /\ df = <<>>
    /\ sel = NoSel
    /\ page = FirstPage(entry)
    /\ out = NoResult
    /\ steps = 0

Init ==
    /\ entry \in Entries
    /\ raw \in Tables(FilterRows(entry), 1)
    /\ env = AllPresent
    /\ ld = NoLoad
    /\ Start

InitLoad ==
    /\ entry \in Entries
    /\ raw \in Tables(LoadRows(entry), 0)
    /\ env = AllPresent
    /\ ld = NoLoad
    /\ Start

\* One file or one critical column at most is absent.
Environments ==
    {AllPresent}
    \cup {[files |-> {f}, columns |-> {}] :
            f \in {PrimaryFile, "ticket_type.csv", "service_type.csv", "form_four_trip-6.csv"}}
    \cup {[files |-> {}, columns |-> {c}] : c \in CriticalColumns}

InitFiles ==
    /\ entry \in Entries
    /\ raw \in Tables(FilterRows(entry), 0)
    /\ env \in Environments
    /\ ld = NoLoad
    /\ Start

\* Tables for the aggregations: a few free rows, or one row per route with
\* the routes in ascending or descending order and the passenger counts
\* 1 .. m followed by ones.
MaxAggRows == 2
AggDays == {15, 45, 75}     \* 15 January, 14 February, 15 March
WideSizes == {TopN, TopN + 1, 2 * TopN, TopTen + 1}

AggRows(e) ==
    {RawRow(Num(day), 0, Num(fare), dist, Num(pax), "A", "E", route, sched) :
        day \in AggDays,
        fare \in IF e = "latest_drilled_down" THEN {100, 200} ELSE {100},
        dist \in IF e = "latest_drilled_down" THEN {Num(4)} ELSE {Num(0), Num(4)},
        pax \in {1, 2},
        route \in Routes,
        sched \in IF e = "init" THEN Schedules ELSE {"S2"}}

WideTable(size, descending, m) ==
    [i \in 1 .. size |->
        RawRow(Num(IF i = 1 THEN 15 ELSE 75), 0, Num(100), Num(4),
               Num(IF i <= m THEN i ELSE 1), "A", "E",
               RouteOrder[IF descending THEN size + 1 - i ELSE i], "S2")]

AggTables(e) ==
    UNION {[1 .. n -> AggRows(e)] : n \in 1 .. MaxAggRows}
    \cup {WideTable(size, d, m) : size \in WideSizes, d \in BOOLEAN, m \in 0 .. 2 * TopN}

InitAgg ==
    /\ entry \in AggEntries
    /\ raw \in AggTables(entry)
    /\ env = AllPresent
    /\ ld = NoLoad
    /\ Start

\* Tables for the chunked load: ticket codes that are a letter, a number or
\* unknown, distances with and without an override, and every chunk size up to
\* the longest table.
MaxChunkRows == 3
ChunkSizes == 1 .. MaxChunkRows
ChunkPool ==
    {RawRow(Num(31), 1, Num(100), dist, Num(5), tkt, "E", "R1", sched) :
        dist \in {Num(0), Num(4)}, tkt \in {"A", "7", "Z9"}, sched \in Schedules}
ChunkTables == UNION {[1 .. n -> ChunkPool] : n \in 0 .. MaxChunkRows}

InitChunks ==
    /\ entry = "init"
    /\ raw \in ChunkTables
    /\ env = AllPresent
    /\ \E chunk_size \in ChunkSizes : ld = LoadStart(chunk_size)
    /\ Start

\* Tables for the pages of init.py: two days, the two known service codes and
\* an unknown one, vehicle numbers read as numbers or as text, and a missing
\* vehicle number.  A column read from a file holds numbers or text, not both.
MaxPageRows == 2
PagePool ==
    {[RawRow(Num(day), 1, Num(100), Num(4), Num(5), "A", svc, "R1", "S2")
         EXCEPT !.vehicle_no = v] :
        day \in {31, 32}, svc \in {"E", "M", "Q"},
        v \in {Num(1), Num(2), Plate(1), NaN}}
OneDtype(t) ==
    ~ \E i, j \in 1 .. Len(t) : t[i].vehicle_no.k = "num" /\ t[j].vehicle_no.k = "str"
PageTables ==
    {t \in UNION {[1 .. n -> PagePool] : n \in 1 .. MaxPageRows} : OneDtype(t)}

InitPagesStart ==
    /\ entry = "init"
    /\ raw \in PageTables
    /\ env = AllPresent
    /\ ld = NoLoad
    /\ Start

-----------------------------------------------------------------------------
(* The steps of a session.                                                 *)

\* df = load_data()
LoadData ==
    /\ phase = "start"
    /\ \E res \in LoadOutcomes(entry, raw, env) :
          /\ phase' = (IF res.status = "ok" THEN "loaded" ELSE res.status)
          /\ df' = res.table
    /\ UNCHANGED <<entry, raw, env, sel, page, out, steps, agg, ld>>

\* The rest of the script, run for the first time: every widget has its default.
FirstRun ==
    /\ phase = "loaded"
    /\ phase' = "shown"
    /\ sel' = Defaults(entry, df)
    /\ out' = RunScript(entry, df, sel', page)
    /\ UNCHANGED <<entry, raw, env, df, page, steps, agg, ld>>

\* A selectbox whose value is no longer among its options falls back to its
\* first option.
Normalize(s, p) ==
    IF s.route_option \in {"All"} \cup Col(init_filtered_df(df, s), RowRoute)
    THEN s ELSE [s EXCEPT !.route_option = "All"]

\* A widget changed: Streamlit runs the script again from the top.
Rerun(s, p) ==
    /\ phase = "shown"
    /\ steps < MaxSteps
    /\ <<s, p>> # <<sel, page>>
    /\ sel' = Normalize(s, p)
    /\ page' = p
    /\ out' = RunScript(entry, df, sel', p)
    /\ steps' = steps + 1
    /\ UNCHANGED <<entry, raw, env, phase, df, agg, ld>>

\* month_data.py and time_analyse.py pass min_value and max_value.
DateChoices ==
    IF entry \in {"month_data", "time_analyse"}
    THEN {d \in Days : DefaultDates(df)[1] <= d /\ d <= DefaultDates(df)[2]}
    ELSE Days

SetDates ==
    /\ HasDateInput(entry)
    /\ phase = "shown"
    /\ \E d0 \in DateChoices, d1 \in DateChoices :
          Rerun([sel EXCEPT !.dates = <<d0, d1>>], page)

SetService ==
    /\ HasServiceFilter(entry)
    /\ \E S \in SUBSET Col(df, RowService) : Rerun([sel EXCEPT !.service = S], page)

SetTicket ==
    /\ HasTicketFilter(entry)
    /\ entry = "init" => page = "Summary Overview"
    /\ \E S \in SUBSET Col(df, RowTicket) : Rerun([sel EXCEPT !.ticket = S], page)

SetRoute ==
    /\ HasRouteFilter(entry)
    /\ entry = "init" => page = "Summary Overview"
    /\ \E S \in SUBSET Col(df, RowRoute) : Rerun([sel EXCEPT !.route = S], page)

\* A new month selection redraws the week multiselect with its default, every
\* week of the month.
SetMonth ==
    /\ HasMonthFilter(entry)
    /\ \E M \in SUBSET Col(df, RowMonth) :
          LET s == [sel EXCEPT !.month = M]
          IN Rerun([s EXCEPT !.week = IF WeekShown(entry, s)
                                       THEN WeekOptions(df, s) ELSE {}], page)

SetWeek ==
    /\ WeekShown(entry, sel)
    /\ \E W \in SUBSET WeekOptions(df, sel) : Rerun([sel EXCEPT !.week = W], page)

DowOptions == {DowOf(d) : d \in Days}

SetDow ==
    /\ HasDowFilter(entry)
    /\ \E D \in SUBSET (IF entry = "month_data" THEN Col(df, RowDow) ELSE DowOptions) :
          Rerun([sel EXCEPT !.dow = D], page)

\* The tabs are drawn only when the script was not stopped above them.
SetTab4Route ==
    /\ HasTab4(entry)
    /\ out.status = "shown"
    /\ \E S \in SUBSET Col(df, RowRoute) : Rerun([sel EXCEPT !.tab4route = S], page)

\* A page's own widgets are gone when another page is drawn.
SetPage ==
    \E p \in Pages(entry) \ {page} :
        Rerun([sel EXCEPT !.ticket = {}, !.route = {}, !.route_option = "All"], p)

SetRouteOption ==
    /\ entry = "init"
    /\ page = "Route Optimization"
    /\ \E r \in Col(out.filtered, RowRoute) \cup {"All"} :
          Rerun([sel EXCEPT !.route_option = r], page)

\* The page p is drawn and computes its aggregates from its subset.
Aggregate ==
    /\ entry \in AggEntries
    /\ phase = "shown"
    /\ out.status = "shown"
    /\ agg = NoAgg
    /\ \E p \in AggPages(entry), selected_route \in Col(out.filtered, RowRoute),
          top_n \in SliderChoices(Cardinality(Col(out.filtered, RowRoute))),
          time_granularity \in GranularityChoices(entry) :
          /\ page' = p
          /\ agg' = Views(entry, p, df, out, sel, selected_route, top_n,
                          time_granularity)
          /\ df' = page_effect(entry, p, df)
    /\ UNCHANGED <<entry, raw, env, phase, sel, out, steps, ld>>

\* reader = pd.read_csv("data/cleaned_master.csv", chunksize=chunk_size)
OpenReader ==
    /\ ld.pc = "Idle"
    /\ ld' = [ld EXCEPT !.pc = "Reading", !.log = Append(@, "open")]
    /\ UNCHANGED <<entry, raw, env, phase, df, sel, page, out, steps, agg>>

\* for i, chunk in enumerate(reader): the next chunk is read, or the loop ends.
ReadChunk ==
    /\ ld.pc = "Reading"
    /\ IF ld.i < ChunkCount(raw, ld.chunk_size)
       THEN ld' = [ld EXCEPT !.pc = IF ld.i = 0 THEN "Lookups" ELSE "Transform",
                             !.chunk = read_chunk(ChunkRows(raw, ld.chunk_size, ld.i)),
                             !.log = Append(@, "chunk read")]
       ELSE ld' = [ld EXCEPT !.pc = "Return"]
    /\ UNCHANGED <<entry, raw, env, phase, df, sel, page, out, steps, agg>>

\* Lines 93-96, inside `if i == 0`: the three reference files are read.
LoadLookups ==
    /\ ld.pc = "Lookups"
    /\ ld' = [ld EXCEPT !.pc = "Transform", !.lookups = @ + 1,
                         !.log = Append(@, "lookups built")]
    /\ UNCHANGED <<entry, raw, env, phase, df, sel, page, out, steps, agg>>

\* Lines 99-117 (first chunk) and 119-129 (a later chunk, which is then
\* concatenated to master).
TransformChunk ==
    /\ ld.pc = "Transform"
    /\ \E res \in transform_chunk(ld.chunk) :
          IF res.status = "ok"
          THEN /\ ld' = [ld EXCEPT !.pc = IF ld.i = 0 THEN "Reload" ELSE "Reading",
                                   !.i = IF ld.i = 0 THEN 0 ELSE @ + 1,
                                   !.master = @ \o res.table,
                                   !.log = Append(@, "chunk transformed")]
               /\ UNCHANGED phase
          ELSE /\ ld' = [ld EXCEPT !.pc = "Failed", !.master = <<>>]
               /\ phase' = "raised"
    /\ UNCHANGED <<entry, raw, env, df, sel, page, out, steps, agg>>

\* Lines 131-135, the second `if i == 0`: the reference files are read again.
ReloadLookups ==
    /\ ld.pc = "Reload"
    /\ ld' = [ld EXCEPT !.pc = "Reading", !.i = 1, !.lookups = @ + 1,
                         !.log = Append(@, "lookups built")]
    /\ UNCHANGED <<entry, raw, env, phase, df, sel, page, out, steps, agg>>

\* return master
ReturnMaster ==
    /\ ld.pc = "Return"
    /\ ld' = [ld EXCEPT !.pc = "Ready"]
    /\ phase' = "loaded"
    /\ df' = ld.master
    /\ UNCHANGED <<entry, raw, env, sel, page, out, steps, agg>>

\* A page of init.py is drawn with its own selections; the page drawn is
\* recorded in agg.page.
FleetDateChoices == {DefaultDates(df)} \cup {<<d, d>> : d \in ValidDays(df)}

DrawInitPage ==
    /\ entry = "init"
    /\ phase = "shown"
    /\ agg = NoAgg
    /\ \E p \in InitPages,
          selected_route \in Col(init_filtered_df(df, sel), RowRoute) \cup {"none"},
          selected_vehicle \in Col(df, RowVehicle) \cup {AllVehicles},
          fleet_dates \in FleetDateChoices,
          bus_type_option \in {"All", "EV INTERSTATE", "MANUAL LOCAL INTERSTATE"} :
          agg' = InitView(p, df, sel, selected_route, selected_vehicle,
                          fleet_dates, bus_type_option)
    /\ UNCHANGED <<entry, raw, env, phase, df, sel, page, out, steps, ld>>

Next ==
    \/ LoadData
    \/ FirstRun
    \/ SetDates
    \/ SetService
    \/ SetTicket
    \/ SetRoute
    \/ SetMonth
    \/ SetWeek
    \/ SetDow
    \/ SetTab4Route
    \/ SetPage
    \/ SetRouteOption

Spec == Init /\ [][Next]_vars

NextLoad == LoadData

SpecLoad == InitLoad /\ [][NextLoad]_vars

SpecFiles == InitFiles /\ [][NextLoad]_vars

NextAgg == LoadData \/ FirstRun \/ Aggregate

SpecAgg == InitAgg /\ [][NextAgg]_vars

NextChunks ==
    \/ OpenReader
    \/ ReadChunk
    \/ LoadLookups
    \/ TransformChunk
    \/ ReloadLookups
    \/ ReturnMaster

SpecChunks == InitChunks /\ [][NextChunks]_vars

\* A run draws its page from the selections it ends with: the global filters
\* are set before the page is drawn.
SetGlobalDates == agg = NoAgg /\ SetDates
SetGlobalService == agg = NoAgg /\ SetService

NextPages ==
    \/ LoadData
    \/ FirstRun
    \/ SetGlobalDates
    \/ SetGlobalService
    \/ DrawInitPage

SpecPages == InitPagesStart /\ [][NextPages]_vars

-----------------------------------------------------------------------------
(* Properties of the filter block, under Spec.                             *)

AllCategoricalEmpty(s) ==
    /\ s.service = {} /\ s.ticket = {} /\ s.route = {} /\ s.month = {}
    /\ s.week = {} /\ s.dow = {} /\ s.tab4route = {} /\ s.route_option = "All"

\* Every timestamp of t lies between the midnights of the two dates.
RangeCovers(t, dates) ==
    \A i \in 1 .. Len(t) :
        /\ t[i].ts.k = "ts"
        /\ TsLe(Ts(dates[1], 0), t[i].ts)
        /\ TsLe(t[i].ts, Ts(dates[2], 0))

InTable(t, r) == \E j \in 1 .. Len(t) : t[j] = r

\* C1: when every categorical selection is empty and the date range covers
\* all data, the working subset is the full table.
C1_EmptySelectionMatchesAll ==
    (/\ phase = "shown"
     /\ AllCategoricalEmpty(sel)
     /\ HasDateInput(entry) => RangeCovers(df, sel.dates))
    => out.filtered = df

\* C2: with the categorical widgets at their defaults, every record whose
\* calendar day lies from the start date through the end date is kept,
\* whatever its time of day.
C2_DateRangeInclusive ==
    (/\ phase = "shown"
     /\ HasDateInput(entry)
     /\ sel = [Defaults(entry, df) EXCEPT !.dates = sel.dates])
    => \A i \in 1 .. Len(df) :
          (sel.dates[1] <= df[i].ts.n /\ df[i].ts.n <= sel.dates[2])
          => InTable(out.filtered, df[i])

\* C3: a date range whose end is before its start is rejected with an
\* InvalidPredicate error.
C3_InvertedRangeRejected ==
    (/\ phase = "shown"
     /\ HasDateInput(entry)
     /\ sel.dates[2] < sel.dates[1])
    => out.status = "invalid_predicate"

\* C4: when the filters match no rows the run ends in the explicit
\* empty-result state, not in an exception and not in an ordinary page.
C4_EmptySubsetReported ==
    (phase = "shown" /\ out.filtered = <<>>) => out.status = "empty_state"

-----------------------------------------------------------------------------
(* Properties of load_data, under SpecLoad.                                *)

HasRatio(e) == e # "time_analyse"
RawOf(row) == raw[row.idx]
LoadedFrom(j) == \E i \in 1 .. Len(df) : df[i].idx = j
NoBadNumber(t) ==
    \A j \in 1 .. Len(t) : t[j].fare.k # "bad" /\ t[j].dist.k # "bad" /\ t[j].pax.k # "bad"

\* c is the quotient a/b of two integers, b > 0.
RatioIs(c, a, b) == c.k = "num" /\ c.n * b = a * c.d
Sentinel(dist) == IF dist.n = 0 THEN 1 ELSE dist.n
NumericPair(r) == r.fare.k = "num" /\ r.dist.k = "num"

\* C5: the stored ratio of a record whose distance is zero or missing is a
\* finite number.
C5_RatioFinite ==
    (phase = "loaded" /\ HasRatio(entry))
    => \A i \in 1 .. Len(df) :
          RawOf(df[i]).dist \in {Num(0), NaN}
          => /\ IsFinite(df[i].rpk)
             /\ entry = "init" => IsFinite(df[i].ppk)

C7_DistancePreserved ==
    phase = "loaded"
    => \A i \in 1 .. Len(df) :
          (/\ RawOf(df[i]).dist = Num(0)
           /\ ~(entry = "init" /\ <<df[i].sched, df[i].route>> \in DOMAIN kms_mapping))
          => df[i].dist = Num(0)

\* C8: a record whose ticket-type code has no entry in the lookup table is
\* kept and its resolved name is "Unknown".
C8_UnknownSentinel ==
    (phase = "loaded" /\ UsesLookups(entry))
    => \A j \in 1 .. Len(raw) :
          raw[j].tkt \notin DOMAIN ticket_types
          => \E i \in 1 .. Len(df) : df[i].idx = j /\ df[i].ticket_type = "Unknown"

\* C9: a record whose date cannot be parsed is left out, the load does not
\* raise because of it, and the records with a valid date are loaded.
C9_BadDateExcluded ==
    (phase # "start" /\ NoBadNumber(raw))
    => /\ phase # "raised"
       /\ phase = "loaded"
          => \A j \in 1 .. Len(raw) :
                /\ raw[j].date.k = "bad" => ~LoadedFrom(j)
                /\ (raw[j].date.k = "num" /\ NumericPair(raw[j])) => LoadedFrom(j)

CoercingEntry(e) == e \in {"latest", "latest_drilled_down"}

-----------------------------------------------------------------------------
(* Properties of load_data when a file or a column is absent, under        *)
(* SpecFiles, and of an empty load, under SpecLoad.                        *)

LookupFileMissing ==
    \/ entry \in {"sample", "init"}
       /\ env.files \cap {"ticket_type.csv", "service_type.csv"} # {}
    \/ entry = "init" /\ "form_four_trip-6.csv" \in env.files

\* C11: when a reference file is absent the load fails: load_data returns no
\* table, so no table with unresolved names or un-overridden distances exists.
C11_MissingReferenceFails ==
    (phase # "start" /\ LookupFileMissing)
    => phase = "raised" /\ df = <<>>

\* init.py with rows to load and form_four_trip-6.csv absent: the load raised.
C11_Witness ==
    /\ entry = "init"
    /\ raw # <<>>
    /\ "form_four_trip-6.csv" \in env.files
    /\ phase = "raised"

\* C12: load_data never returns a table without rows.
C12_LoadedNotEmpty ==
    phase = "loaded" => df # <<>>

\* C13: when a critical numeric column is absent from the source the load
\* fails; it never returns a table, with the column filled in or without it.
C13_MissingColumnFails ==
    (phase # "start" /\ env.columns # {})
    => phase \in {"raised", "stopped"}

-----------------------------------------------------------------------------
(* The filter as a whole, under Spec.                                      *)

\* A dimension constrains a row when its selection is not empty; the week
\* selection exists only while exactly one month is selected.
InSelection(x, S) == S = {} \/ x \in S

MatchesSelections(e, s, r) ==
    /\ HasDateInput(e) => (r.ts.k = "ts" /\ s.dates[1] <= r.ts.n /\ r.ts.n <= s.dates[2])
    /\ HasServiceFilter(e) => InSelection(r.service_type, s.service)
    /\ (HasTicketFilter(e) /\ e # "init") => InSelection(r.ticket_type, s.ticket)
    /\ (HasRouteFilter(e) /\ e # "init") => InSelection(r.route, s.route)
    /\ HasMonthFilter(e) => InSelection(RowMonth(r), s.month)
    /\ WeekShown(e, s) => InSelection(RowWeek(r), s.week)
    /\ HasDowFilter(e) => InSelection(RowDow(r), s.dow)

\* C14: the working subset is the rows of the table that satisfy every active
\* constraint, each once and in the order of the table.
C14_ExactlyTheMatchingRows ==
    phase = "shown"
    => LET P(r) == MatchesSelections(entry, sel, r)
       IN out.filtered = SelectSeq(df, P)

-----------------------------------------------------------------------------
(* Properties of the aggregations, under SpecAgg.                          *)

\* C15: a ratio of two aggregates is a finite number, and 0 when its
\* denominator is 0 or the subset is empty.
C15_AggregateRatioSafe ==
    /\ agg.view \in {"route", "time_analytics"}
       => \A i \in 1 .. Len(agg.groups) : IsFinite(agg.groups[i].epkm)
    /\ agg.view = "optimization"
       => /\ IsFinite(agg.score)
          /\ agg.subset = <<>> => agg.score = Num(0)


\* The keys of a grouped result, and whether each is there once.
KeysOf(g) == {g[i].key : i \in 1 .. Len(g)}
EachOnce(g) == Cardinality(KeysOf(g)) = Len(g)

\* The passengers of one route, added up row by row.
RECURSIVE RoutePassengers(_, _)
RoutePassengers(t, k) ==
    IF t = <<>> THEN 0
    ELSE (IF Head(t).route = k THEN Head(t).pax.n ELSE 0) + RoutePassengers(Tail(t), k)

DistinctTotals(t) ==
    \A a \in Col(t, RowRoute), b \in Col(t, RowRoute) :
        a # b => RoutePassengers(t, a) # RoutePassengers(t, b)

TopBottomView == agg.view \in {"summary", "month_data"}
DistinctKeys == Cardinality(Col(agg.subset, RowRoute))

\* C16 as stated: the five routes with the most passengers and the five with
\* the fewest share no route whenever the subset has more than five routes, and
\* with exactly five routes the two lists together hold every route, each list
\* once.
C16_TopBottomDisjoint ==
    TopBottomView =>
        /\ TopN < DistinctKeys => KeysOf(agg.top) \cap KeysOf(agg.bottom) = {}
        /\ TopN = DistinctKeys =>
              /\ KeysOf(agg.top) \cup KeysOf(agg.bottom) = Col(agg.subset, RowRoute)
              /\ EachOnce(agg.top) /\ EachOnce(agg.bottom)

\* C16, amended: the two lists share no route whenever the subset has at least
\* twice five routes and no two routes have the same total; with exactly five
\* routes the two lists together hold every route, each list once.
C16_TopBottomDisjointWhenApart ==
    TopBottomView =>
        /\ (2 * TopN <= DistinctKeys /\ DistinctTotals(agg.subset))
              => KeysOf(agg.top) \cap KeysOf(agg.bottom) = {}
        /\ TopN = DistinctKeys =>
              /\ KeysOf(agg.top) \cup KeysOf(agg.bottom) = Col(agg.subset, RowRoute)
              /\ EachOnce(agg.top) /\ EachOnce(agg.bottom)

C16_Witness ==
    /\ TopBottomView
    /\ 2 * TopN <= DistinctKeys
    /\ DistinctTotals(agg.subset)
    /\ Len(agg.top) = TopN /\ Len(agg.bottom) = TopN
    /\ KeysOf(agg.top) \cap KeysOf(agg.bottom) = {}


FirstSeen(t, k) == CHOOSE i \in 1 .. Len(t) : t[i].route = k /\ \A j \in 1 .. i - 1 : t[j].route # k
KeyPlace(k) == CHOOSE i \in 1 .. Len(RouteOrder) : RouteOrder[i] = k

\* Route a is kept, route b is cut, and both have the same total.
TieAtCutoff(t, top, a, b) ==
    /\ a \in KeysOf(top)
    /\ b \in Col(t, RowRoute) \ KeysOf(top)
    /\ RoutePassengers(t, a) = RoutePassengers(t, b)

TopPassengersView == agg.view \in {"summary", "month_data", "latest_drilled_down"}

\* C18 as stated: of two routes with equal totals at the cut-off of the top
\* routes by passengers, the one kept is the one seen first in the subset's rows.
C18_TiesKeepFirstSeen ==
    TopPassengersView =>
        \A a \in Col(agg.subset, RowRoute), b \in Col(agg.subset, RowRoute) :
            TieAtCutoff(agg.subset, agg.top, a, b)
                => FirstSeen(agg.subset, a) < FirstSeen(agg.subset, b)

\* C18, amended: of two routes with equal totals at the cut-off, the one kept
\* is the one whose key sorts first.
C18_TiesKeepFirstKey ==
    TopPassengersView =>
        \A a \in Col(agg.subset, RowRoute), b \in Col(agg.subset, RowRoute) :
            TieAtCutoff(agg.subset, agg.top, a, b) => KeyPlace(a) < KeyPlace(b)

C18_Witness ==
    /\ agg.view = "latest_drilled_down"
    /\ \E a \in Col(agg.subset, RowRoute), b \in Col(agg.subset, RowRoute) :
          /\ TieAtCutoff(agg.subset, agg.top, a, b)
          /\ KeyPlace(a) < KeyPlace(b)
          /\ FirstSeen(agg.subset, b) < FirstSeen(agg.subset, a)


\* The revenue of one schedule and the passengers of one month, added up row
\* by row.
RECURSIVE ScheduleRevenue(_, _)
ScheduleRevenue(t, k) ==
    IF t = <<>> THEN 0
    ELSE (IF Head(t).sched = k THEN Head(t).fare.n ELSE 0) + ScheduleRevenue(Tail(t), k)

RECURSIVE MonthPassengers(_, _)
MonthPassengers(t, m) ==
    IF t = <<>> THEN 0
    ELSE (IF RowMonth(Head(t)) = m THEN Head(t).pax.n ELSE 0) + MonthPassengers(Tail(t), m)

FirstSeenSchedule(t, k) ==
    CHOOSE i \in 1 .. Len(t) : t[i].sched = k /\ \A j \in 1 .. i - 1 : t[j].sched # k
FirstSeenMonth(t, m) ==
    CHOOSE i \in 1 .. Len(t) : RowMonth(t[i]) = m /\ \A j \in 1 .. i - 1 : RowMonth(t[j]) # m
SchedulePlace(k) == CHOOSE i \in 1 .. Len(ScheduleOrder) : ScheduleOrder[i] = k

\* One pair per key with the key's total: schedule_stats and month_wise_df.
OnePairPerKey ==
    /\ agg.view = "route" =>
          /\ KeysOf(agg.groups) = Col(agg.subset, RowSchedule) /\ EachOnce(agg.groups)
          /\ \A i \in 1 .. Len(agg.groups) :
                agg.groups[i].value = Num(ScheduleRevenue(agg.subset, agg.groups[i].key))
    /\ agg.view = "month_data" =>
          /\ KeysOf(agg.groups) = Col(agg.subset, RowMonth) /\ EachOnce(agg.groups)
          /\ \A i \in 1 .. Len(agg.groups) :
                agg.groups[i].value = Num(MonthPassengers(agg.subset, agg.groups[i].key))

\* C19 as stated: one (key, total) pair per key, the total being the sum over
\* the key's rows, and the pairs in the order in which the keys are first seen
\* in the subset.
C19_GroupsInFirstSeenOrder ==
    /\ OnePairPerKey
    /\ agg.view = "route" =>
          \A i \in 1 .. Len(agg.groups), j \in 1 .. Len(agg.groups) :
              i < j => FirstSeenSchedule(agg.subset, agg.groups[i].key)
                         < FirstSeenSchedule(agg.subset, agg.groups[j].key)
    /\ agg.view = "month_data" =>
          \A i \in 1 .. Len(agg.groups), j \in 1 .. Len(agg.groups) :
              i < j => FirstSeenMonth(agg.subset, agg.groups[i].key)
                         < FirstSeenMonth(agg.subset, agg.groups[j].key)

\* C19, amended: one (key, total) pair per key, the total being the sum over
\* the key's rows, and the pairs in ascending order of the key (schedule_stats)
\* or, where the caller sorts them, in calendar order (month_wise_df).
C19_GroupsInKeyOrder ==
    /\ OnePairPerKey
    /\ agg.view = "route" =>
          \A i \in 1 .. Len(agg.groups), j \in 1 .. Len(agg.groups) :
              i < j => SchedulePlace(agg.groups[i].key) < SchedulePlace(agg.groups[j].key)
    /\ agg.view = "month_data" =>
          \A i \in 1 .. Len(agg.groups), j \in 1 .. Len(agg.groups) :
              i < j => agg.groups[i].key < agg.groups[j].key

C19_Witness ==
    /\ agg.view = "month_data"
    /\ Len(agg.subset) = 2
    /\ RowMonth(agg.subset[1]) = 2 /\ RowMonth(agg.subset[2]) = 1
    /\ Len(agg.groups) = 2
    /\ agg.groups[1].key = 1 /\ agg.groups[2].key = 2


\* The subset has rows in January and in March.
SpansThreeMonths == {1, 3} \subseteq Col(agg.subset, RowMonth)
BucketKeys == [i \in 1 .. Len(agg.buckets) |-> agg.buckets[i].key]
EmptyMonth(m) == m \notin Col(agg.subset, RowMonth)

\* C20 as stated: over a subset that spans three months the monthly buckets
\* are January, February, March in that order, and the bucket of a month with
\* no rows holds zero, not NaN; in the distance trend of init.py and in the
\* monthly trend of latest_drilled_down.py.
C20_ThreeBucketsZeroFilled ==
    (agg.view \in {"fleet", "latest_drilled_down"} /\ SpansThreeMonths) =>
        /\ BucketKeys = MonthOrder
        /\ \A i \in 1 .. Len(agg.buckets) :
              EmptyMonth(agg.buckets[i].key) =>
                  /\ agg.buckets[i].value = Num(0)
                  /\ agg.view = "latest_drilled_down"
                        => agg.buckets[i].avg_daily_passengers = Num(0)

\* C20, amended: the monthly trend of latest_drilled_down.py has the three
\* buckets in calendar order, a month with no rows having total zero and a
\* NaN average; the distance trend of init.py has a bucket only for the months
\* that have rows, in calendar order.
C20_BucketsAsGrouped ==
    /\ (agg.view = "latest_drilled_down" /\ SpansThreeMonths) =>
          /\ BucketKeys = MonthOrder
          /\ \A i \in 1 .. Len(agg.buckets) :
                /\ agg.buckets[i].value
                      = Num(MonthPassengers(agg.subset, agg.buckets[i].key))
                /\ EmptyMonth(agg.buckets[i].key)
                      <=> agg.buckets[i].avg_daily_passengers.k = "nan"
    /\ (agg.view = "fleet" /\ SpansThreeMonths) =>
          /\ \A m \in 1 .. 3 : ~EmptyMonth(m) <=> \E i \in 1 .. Len(agg.buckets) : BucketKeys[i] = m
          /\ \A i \in 1 .. Len(agg.buckets), j \in 1 .. Len(agg.buckets) :
                i < j => BucketKeys[i] < BucketKeys[j]

C20_Witness ==
    /\ agg.view = "latest_drilled_down"
    /\ SpansThreeMonths /\ EmptyMonth(2)
    /\ Len(agg.buckets) = 3
    /\ agg.buckets[2].value = Num(0)
    /\ agg.buckets[2].avg_daily_passengers.k = "nan"


\* Every row of the subset has the same passenger count, or every row has the
\* same revenue.
ZeroVariance(t) ==
    \/ \A i \in 1 .. Len(t), j \in 1 .. Len(t) : t[i].pax = t[j].pax
    \/ \A i \in 1 .. Len(t), j \in 1 .. Len(t) : t[i].fare = t[j].fare

\* C21: when the passenger counts or the revenues of the subset are all equal,
\* the correlation is reported as undefined, neither 0 nor 1, and the chart
\* title does not carry the output of the number format (digits or nan).
C21_ZeroVarianceUndefined ==
    (agg.view = "latest_drilled_down" /\ ZeroVariance(agg.subset)) =>
        /\ agg.correlation.k = "nan"
        /\ agg.correlation \notin {Num(0), Num(1)}
        /\ agg.title.correlation \notin {"digits", "nan"}


\* The Epkm values of the subset are not all equal.
EpkmVaries(t) == \E i \in 1 .. Len(t), j \in 1 .. Len(t) : t[i].rpk # t[j].rpk

\* C22: for a subset that is not empty the outlier detection either computes
\* the z-scores, and then the Epkm values vary, or says that the values are
\* constant and computes none; a single row included.
C22_ScoresOrConstant ==
    (agg.view = "latest_drilled_down" /\ agg.subset # <<>>) =>
        \/ /\ agg.outliers.outcome = "scores"
           /\ EpkmVaries(agg.subset)
           /\ Len(agg.outliers.epkm_zscore) = Len(agg.subset)
        \/ /\ agg.outliers.outcome = "constant"
           /\ agg.outliers.epkm_zscore = <<>>


\* Where in the log an event first and last occurs (0 when it does not).
FirstAt(log, ev) ==
    IF \E i \in 1 .. Len(log) : log[i] = ev
    THEN CHOOSE i \in 1 .. Len(log) : log[i] = ev /\ \A j \in 1 .. i - 1 : log[j] # ev
    ELSE 0
LastAt(log, ev) ==
    IF \E i \in 1 .. Len(log) : log[i] = ev
    THEN CHOOSE i \in 1 .. Len(log) : log[i] = ev /\ \A j \in i + 1 .. Len(log) : log[j] # ev
    ELSE 0

\* C23: no chunk of the primary source is read before the lookup tables are
\* built, and the lookup tables are not built again once a chunk has been
\* transformed.
C23_LookupsBeforeChunks ==
    ld.pc # "none" =>
        /\ FirstAt(ld.log, "chunk read") # 0
              => /\ FirstAt(ld.log, "lookups built") # 0
                 /\ FirstAt(ld.log, "lookups built") < FirstAt(ld.log, "chunk read")
        /\ FirstAt(ld.log, "chunk transformed") # 0
              => LastAt(ld.log, "lookups built") < FirstAt(ld.log, "chunk transformed")


\* The table a load in one chunk returns.
WholeLoad(t) == init_load_data(read_chunk(ReadRows(t))).table

\* C24: the table returned does not depend on the chunk size: it has one row
\* per source row, in source order, and every row is what a load of the whole
\* source in one chunk makes of it.
C24_ChunkSizeIrrelevant ==
    ld.pc = "Ready" =>
        /\ Len(df) = Len(raw)
        /\ \A i \in 1 .. Len(df) : df[i].idx = i
        /\ df = WholeLoad(raw)


HasOverride(r) == <<r.sched, r.route>> \in DOMAIN kms_mapping

\* C25: for a record whose (schedule, route) key is in the override map the
\* stored distance is the override value and both ratios are the fare and the
\* passenger count divided by it; a record with no such key keeps its distance.
C25_OverrideBeforeRatios ==
    ld.pc = "Ready" =>
        \A i \in 1 .. Len(df) :
            LET r == RawOf(df[i])
            IN IF HasOverride(r)
               THEN /\ df[i].dist = Num(kms_mapping[<<r.sched, r.route>>])
                    /\ df[i].rpk = Div(r.fare, Replace01(df[i].dist))
                    /\ df[i].ppk = Div(r.pax, Replace01(df[i].dist))
               ELSE df[i].dist = r.dist


\* C26: once load_data has returned, no step changes the table df.
C26_TableNeverChanged == [][(phase \in {"loaded", "shown"}) => (df' = df)]_vars

C26_Witness ==
    /\ agg.view = "latest_drilled_down"
    /\ agg.outliers.outcome = "scores"
    /\ df # <<>>
    /\ \A i \in 1 .. Len(df) : "written" \notin DOMAIN df[i]


\* The row satisfies the global filters: it is within the date range and, when
\* service types are selected, its service type is one of them.
MeetsGlobalFilters(r) ==
    /\ Between(r.ts, sel.dates)
    /\ sel.service # {} => r.service_type \in sel.service

\* C27: on every page of init.py every row of the page's subset satisfies the
\* global date-range and service-type filters.
C27_PageWithinGlobalFilters ==
    agg.view = "init page" =>
        \A i \in 1 .. Len(agg.subset) : MeetsGlobalFilters(agg.subset[i])


\* C28: on the Fleet Monitoring page of init.py the idle vehicle count is never
\* negative and the active vehicles never exceed the total vehicles, also when
\* some records have a missing vehicle number.
C28_IdleNeverNegative ==
    (agg.view = "init page" /\ agg.page = "Fleet Monitoring") =>
        /\ agg.idle_vehicles >= 0
        /\ agg.active_vehicles <= agg.total_vehicles

\* C29: on the Sustainability page of init.py the projected CO2 saved is never
\* negative, is zero whenever the EV distance of the subset is zero, and is
\* never positive together with the 'No EV buses in operation' insight.
C29_NoSavingWithoutEV ==
    (agg.view = "init page" /\ agg.page = "Sustainability") =>
        /\ CellLe(Num(0), agg.co2_saved)
        /\ agg.total_distance_ev = Num(0) => agg.co2_saved = Num(0)
        /\ ~ (CellLt(Num(0), agg.co2_saved) /\ agg.insight = "No EV buses in operation")


\* C30: time_analytics.py resamples the revenue trend by 'H', 'D', 'W' and 'M'
\* for the labels Hourly, Daily, Weekly and Monthly, and groups the demand
\* heatmap by date, week and month for Daily, Weekly and Monthly.
C30_GranularityMapping ==
    agg.view = "time_analytics" =>
        /\ agg.time_granularity = Hourly => agg.rule = "H"
        /\ agg.time_granularity = Daily =>
              agg.rule = "D" /\ agg.heatmap_columns[1] = "date"
        /\ agg.time_granularity = Weekly =>
              agg.rule = "W" /\ agg.heatmap_columns[1] = "week"
        /\ agg.time_granularity = Monthly =>
              agg.rule = "M" /\ agg.heatmap_columns[1] = "month"

C30_Witness ==
    /\ agg.view = "time_analytics"
    /\ agg.time_granularity = Monthly
    /\ agg.rule = "M"
    /\ Cardinality(agg.heatmap_cells) > 1

=============================================================================
